---- MODULE Spec2Model ----
(***************************************************************************)
(* Model of the Postpass extraction core of qgis-osm-conflator:            *)
(*   - the query builder (postpass/query_builder.py): pure functions that  *)
(*     turn a request into one SQL string;                                 *)
(*   - the extraction client (postpass/client.py): PostpassClient.run_sql  *)
(*     and PostpassClient.extract_buildings.                               *)
(*                                                                         *)
(* A Python str is a sequence of atoms: an atom is one character of user   *)
(* supplied text (" " is the whitespace character) or one literal fragment *)
(* of an f-string template.  Concatenation is \o.  None is a sentinel that *)
(* no user text equals.                                                    *)
(***************************************************************************)
EXTENDS Integers, Sequences, FiniteSets, TLC

\* ------------------------------------------------------------------ bounds
MaxStrLen == 2
MaxListLen == 2
MaxCoord == 1
MaxCalls == 3

\* ------------------------------------------------------- python primitives
None == <<"None">>
NoneSeq == << <<"None", "None">> >>

\* bool(x) of a str or None
Truthy(x) == x # None /\ x # <<>>

\* bool(xs) of a list or None
TruthyList(xs) == xs # NoneSeq /\ xs # <<>>

\* `xs or []`
OrEmpty(xs) == IF TruthyList(xs) THEN xs ELSE <<>>

IsSpace(c) == c = " "

RECURSIVE LStrip(_)
LStrip(s) == IF s # <<>> /\ IsSpace(Head(s)) THEN LStrip(Tail(s)) ELSE s

RECURSIVE RStrip(_)
RStrip(s) ==
    IF s # <<>> /\ IsSpace(s[Len(s)]) THEN RStrip(SubSeq(s, 1, Len(s) - 1)) ELSE s

\* str.strip()
Strip(s) == RStrip(LStrip(s))

\* sep.join(items)
RECURSIVE Join(_, _)
Join(sep, items) ==
    IF items = <<>> THEN <<>>
    ELSE IF Len(items) = 1 THEN items[1]
    ELSE items[1] \o sep \o Join(sep, Tail(items))

DigitChar(d) == <<"0", "1", "2", "3", "4", "5", "6", "7", "8", "9">>[d + 1]

RECURSIVE Digits(_)
Digits(n) == IF n < 10 THEN <<DigitChar(n)>> ELSE Digits(n \div 10) \o <<DigitChar(n % 10)>>

\* float("nan"): a float is the integer it equals, or this value, which lies
\* outside the range of the coordinates
NaN == (0 - MaxCoord) - 1000

\* a >= b, a < b of two floats: every comparison with nan is False
FloatGe(a, b) == a # NaN /\ b # NaN /\ a >= b


\* f"{x}" of the float whose value is the integer n: -1.0, 0.0, 12.0, nan
FormatFloat(n) ==
    IF n = NaN THEN <<"nan">>
    ELSE (IF n < 0 THEN <<"-">> ELSE <<>>)
             \o Digits(IF n < 0 THEN 0 - n ELSE n) \o <<".", "0">>

\* --------------------------------------------------------- query builder
Projection(col) == <<"tags->>'">> \o col \o <<"' as \"">> \o col \o <<"\"">>

\* the loop without `col = col.strip()`
RECURSIVE NoStripProjections(_)
NoStripProjections(columns) ==
    IF columns = <<>> THEN <<>>
    ELSE LET col == Head(columns)
         IN  IF col = <<>> \/ col = <<"*">>
             THEN NoStripProjections(Tail(columns))
             ELSE <<Projection(col)>> \o NoStripProjections(Tail(columns))

\* the loop of create_column_filter: one projection per kept column
RECURSIVE Projections(_)
Projections(columns) ==
    IF columns = <<>> THEN <<>>
    ELSE LET col == Strip(Head(columns))
         IN  IF col = <<>> \/ col = <<"*">>
             THEN Projections(Tail(columns))
             ELSE <<Projection(col)>> \o Projections(Tail(columns))

GeomExpr(use_centroid) ==
    IF use_centroid THEN <<"ST_Centroid(geom) as geom">> ELSE <<"geom">>

\* select_cols just before the join
SelectCols(columns, use_centroid) ==
    << <<"osm_id">>, <<"tags">> >> \o Projections(columns) \o <<GeomExpr(use_centroid)>>

CreateColumnFilter(columns, use_centroid) ==
    Join(<<", ">>, SelectCols(columns, use_centroid))

CreateBboxFilter(bbox, geom_col) ==
    geom_col \o <<" && ", "ST_SetSRID(", "ST_MakeBox2D(", "ST_MakePoint(">>
        \o FormatFloat(bbox[1]) \o <<", ">> \o FormatFloat(bbox[2])
        \o <<"),", "ST_MakePoint(">>
        \o FormatFloat(bbox[3]) \o <<", ">> \o FormatFloat(bbox[4])
        \o <<"), 4326)">>

KeepValue(v) == v # None /\ v # <<>>

\* `cleaned` without the single "*" rule
NoWildcardCleaned(values) ==
    SelectSeq(OrEmpty(values), KeepValue)

\* `cleaned` when create_tag_filter reaches its first return
Cleaned(values) ==
    LET cleaned == SelectSeq(OrEmpty(values), KeepValue)
    IN  IF Len(cleaned) = 1 /\ cleaned[1] = <<"*">> THEN <<>> ELSE cleaned

Quoted(v) == <<"'">> \o Strip(v) \o <<"'">>

RECURSIVE QuotedAll(_)
QuotedAll(vs) == IF vs = <<>> THEN <<>> ELSE <<Quoted(Head(vs))>> \o QuotedAll(Tail(vs))

CreateTagFilter(key, values) ==
    LET cleaned == Cleaned(values)
    IN  IF cleaned = <<>>
        THEN <<"tags ? '">> \o Strip(key) \o <<"'">>
        ELSE IF Len(cleaned) = 1
        THEN <<"tags->>'">> \o Strip(key) \o <<"' = '">> \o Strip(cleaned[1]) \o <<"'">>
        ELSE <<"tags->>'">> \o Strip(key) \o <<"' IN (">>
                 \o Join(<<", ">>, QuotedAll(cleaned)) \o <<")">>

\* ---------------------------------------------------------------- results
Return(v, work) ==
    [kind |-> "return", cls |-> "", msg |-> "", value |-> v, built |-> work]

Raise(c, m, work) ==
    [kind |-> "raise", cls |-> c, msg |-> m, value |-> <<>>, built |-> work]

NoResult == [kind |-> "none", cls |-> "", msg |-> "", value |-> <<>>, built |-> <<>>]

\* build_simple_query testing `tag_key is not None` instead of `tag_key`
NotNoneTagBuildSimpleQuery(table, bbox, columns, tag_key, tag_values, use_centroid) ==
    IF ~Truthy(table)
    THEN Raise("ValueError", "table is required for Postpass query.", <<>>)
    ELSE LET select_sql == CreateColumnFilter(OrEmpty(columns), use_centroid)
             bbox_sql == CreateBboxFilter(bbox, <<"geom">>)
             where_clauses ==
                 IF tag_key # None
                 THEN <<bbox_sql, CreateTagFilter(tag_key, OrEmpty(tag_values))>>
                 ELSE <<bbox_sql>>
             work ==
                 <<"create_column_filter", "create_bbox_filter">>
                     \o (IF tag_key # None THEN <<"create_tag_filter">> ELSE <<>>)
         IN  Return(<<"SELECT ">> \o select_sql \o <<" FROM ">> \o table
                        \o <<" WHERE ">> \o Join(<<" AND ">>, where_clauses),
                    work)

\* build_simple_query testing the table after the clauses are built
LateCheckBuildSimpleQuery(table, bbox, columns, tag_key, tag_values, use_centroid) ==
    LET select_sql == CreateColumnFilter(OrEmpty(columns), use_centroid)
        bbox_sql == CreateBboxFilter(bbox, <<"geom">>)
        where_clauses ==
            IF Truthy(tag_key)
            THEN <<bbox_sql, CreateTagFilter(tag_key, OrEmpty(tag_values))>>
            ELSE <<bbox_sql>>
        work ==
            <<"create_column_filter", "create_bbox_filter">>
                \o (IF Truthy(tag_key) THEN <<"create_tag_filter">> ELSE <<>>)
    IN  IF ~Truthy(table)
        THEN Raise("ValueError", "table is required for Postpass query.", work)
        ELSE Return(<<"SELECT ">> \o select_sql \o <<" FROM ">> \o table
                        \o <<" WHERE ">> \o Join(<<" AND ">>, where_clauses),
                    work)

\* build_simple_query: `built` lists the helpers it called, in order
BuildSimpleQuery(table, bbox, columns, tag_key, tag_values, use_centroid) ==
    IF ~Truthy(table)
    THEN Raise("ValueError", "table is required for Postpass query.", <<>>)
    ELSE LET select_sql == CreateColumnFilter(OrEmpty(columns), use_centroid)
             bbox_sql == CreateBboxFilter(bbox, <<"geom">>)
             where_clauses ==
                 IF Truthy(tag_key)
                 THEN <<bbox_sql, CreateTagFilter(tag_key, OrEmpty(tag_values))>>
                 ELSE <<bbox_sql>>
             work ==
                 <<"create_column_filter", "create_bbox_filter">>
                     \o (IF Truthy(tag_key) THEN <<"create_tag_filter">> ELSE <<>>)
         IN  Return(<<"SELECT ">> \o select_sql \o <<" FROM ">> \o table
                        \o <<" WHERE ">> \o Join(<<" AND ">>, where_clauses),
                    work)

\* --------------------------------------------------------------- inputs
Chars == {"a", " ", "*"}

Strs == UNION {[1..n -> Chars] : n \in 0..MaxStrLen}

\* list entries: every string of at most one character, and the two-character
\* strings that have something to trim
Entries ==
    {<<>>, <<"a">>, <<" ">>, <<"*">>, <<" ", "a">>, <<"a", " ">>, <<" ", "*">>}

ValueLists == UNION {[1..n -> Entries \cup {None}] : n \in 0..MaxListLen} \cup {NoneSeq}

ColumnLists == UNION {[1..n -> Entries] : n \in 0..MaxListLen}

Keys == Strs

Coords == (0 - MaxCoord)..MaxCoord

BBoxes == [1..4 -> Coords]

\* the boxes a query is built for: ordered, unordered and degenerate ones
QueryBBoxes == {<<x, y, 0 - x, 0 - y>> : x \in Coords, y \in Coords}

Tables == {None, <<>>, <<" ">>, <<"t">>, <<"t", ";">>}

QueryColumns == {NoneSeq, << <<"a">>, <<" ">> >>}

QueryTagKeys == {None, <<>>, <<"a">>}

QueryTagValues == {NoneSeq, << <<"a", ";">>, <<"*">> >>}

DefaultCall ==
    [op |-> "none", key |-> <<>>, values |-> <<>>, columns |-> <<>>,
     use_centroid |-> FALSE, table |-> <<>>, bbox |-> <<0, 0, 0, 0>>,
     geom_col |-> <<"geom">>, tag_key |-> None, tag_values |-> NoneSeq]

TagFilterCalls ==
    {[DefaultCall EXCEPT !.op = "create_tag_filter", !.key = k, !.values = vs] :
        k \in Keys, vs \in ValueLists}

ColumnFilterCalls ==
    {[DefaultCall EXCEPT !.op = "create_column_filter", !.columns = cs,
                         !.use_centroid = uc] :
        cs \in ColumnLists, uc \in BOOLEAN}

BboxFilterCalls ==
    {[DefaultCall EXCEPT !.op = "create_bbox_filter", !.bbox = b, !.geom_col = g] :
        b \in BBoxes, g \in {<<"geom">>, <<"g">>}}

QueryCalls ==
    {[DefaultCall EXCEPT !.op = "build_simple_query", !.table = t, !.bbox = b,
                         !.columns = cs, !.tag_key = k, !.tag_values = vs,
                         !.use_centroid = uc] :
        t \in Tables, b \in QueryBBoxes, cs \in QueryColumns, k \in QueryTagKeys,
        vs \in QueryTagValues, uc \in BOOLEAN}

\* ----------------------------------------------------------------- state
VARIABLES
    bcall,      \* the builder call being made: the function and its arguments
    bresult,    \* what that call returned or raised (NoResult before it ran)
    endpoint,   \* PostpassClient.endpoint
    calls,      \* client calls made so far
    accepted,   \* run_sql calls that passed the endpoint and SQL checks
    posts,      \* urlopen invocations so far
    last,       \* the last client call: arguments, transport outcome, result
    dlg,        \* the dialog's input widgets: their texts and the selected table
    status,     \* statusLabel: its colour and its text
    layers,     \* the names of the layers of the project, in the order added
    click       \* the last click on runButton: the steps it ran, the POSTs it made

vars == <<bcall, bresult, endpoint, calls, accepted, posts, last, dlg, status, layers, click>>

dialogVars == <<dlg, status, layers, click>>

builderVars == <<bcall, bresult>>

clientVars == <<endpoint, calls, accepted, posts, last>>

\* ------------------------------------------------------ extraction client
PostpassClientError == "PostpassClientError"

\* urllib's _splittype: a scheme is a non-empty prefix without "/" or ":",
\* followed by ":"
HasScheme(url) ==
    \E i \in 2..Len(url) :
        /\ url[i] = ":"
        /\ \A j \in 1..(i - 1) : url[j] \notin {":", "/"}

\* Request(self.endpoint, data=body, method="POST") constructs, or raises
\* ValueError("unknown url type") for a URL without a scheme
RequestOk(ep) == HasScheme(Strip(ep))

\* json.loads(raw.decode("utf-8")) on the response bodies the transport returns
JsonType(text) ==
    CASE text = "{\"type\": \"FeatureCollection\", \"features\": []}" -> "object"
      [] text = "{}" -> "object"
      [] text = "[1,2,3]" -> "array"
      [] text = "null" -> "null"
      [] text = "42" -> "number"
      [] text = "\"ok\"" -> "string"
      [] text = "{\"type\": \"FeatureCollection\", \"feat" -> "invalid"
      [] text = "<html>502</html>" -> "invalid"
      [] text = "" -> "invalid"
      [] OTHER -> "invalid"

BodyTexts ==
    {"{\"type\": \"FeatureCollection\", \"features\": []}", "{}", "[1,2,3]", "null",
     "42", "\"ok\"", "{\"type\": \"FeatureCollection\", \"feat", "<html>502</html>", ""}

\* resp.read(): bytes that decode as UTF-8 to `text`, or bytes that do not decode
Bodies == {[utf8 |-> TRUE, text |-> t] : t \in BodyTexts} \cup {[utf8 |-> FALSE, text |-> ""]}

\* urlopen(request, timeout=self.timeout): raises, or returns a response
NetOutcomes == {[ok |-> FALSE, body |-> [utf8 |-> FALSE, text |-> ""]]}
                   \cup {[ok |-> TRUE, body |-> b] : b \in Bodies}

Posted(ep, sql) == [url |-> ep, field |-> "data", value |-> sql]

\* run_sql with the SQL check before the endpoint check
SqlFirstRunSqlOutcome(ep, sql, net) ==
    IF ~Truthy(sql) \/ ~Truthy(Strip(sql))
    THEN [result |-> Raise(PostpassClientError, "SQL query is required.", <<>>),
          posted |-> <<>>, checked |-> FALSE]
    ELSE IF ~Truthy(ep)
    THEN [result |-> Raise(PostpassClientError, "PostPass endpoint is required.", <<>>),
          posted |-> <<>>, checked |-> FALSE]
    ELSE IF ~RequestOk(ep)
    THEN [result |-> Raise("ValueError", "unknown url type", <<>>),
          posted |-> <<>>, checked |-> TRUE]
    ELSE IF ~net.ok
    THEN [result |-> Raise(PostpassClientError, "HTTP request failed", <<>>),
          posted |-> <<Posted(ep, sql)>>, checked |-> TRUE]
    ELSE IF ~net.body.utf8 \/ JsonType(net.body.text) = "invalid"
    THEN [result |-> Raise(PostpassClientError, "PostPass response was not valid JSON.", <<>>),
          posted |-> <<Posted(ep, sql)>>, checked |-> TRUE]
    ELSE IF JsonType(net.body.text) # "object"
    THEN [result |-> Raise(PostpassClientError,
                           "PostPass response must be a GeoJSON object.", <<>>),
          posted |-> <<Posted(ep, sql)>>, checked |-> TRUE]
    ELSE [result |-> Return(<<net.body.text>>, <<>>),
          posted |-> <<Posted(ep, sql)>>, checked |-> TRUE]

\* run_sql without the isinstance(payload, dict) check
AnyJsonRunSqlOutcome(ep, sql, net) ==
    IF ~Truthy(ep)
    THEN [result |-> Raise(PostpassClientError, "PostPass endpoint is required.", <<>>),
          posted |-> <<>>, checked |-> FALSE]
    ELSE IF ~Truthy(sql) \/ ~Truthy(Strip(sql))
    THEN [result |-> Raise(PostpassClientError, "SQL query is required.", <<>>),
          posted |-> <<>>, checked |-> FALSE]
    ELSE IF ~RequestOk(ep)
    THEN [result |-> Raise("ValueError", "unknown url type", <<>>),
          posted |-> <<>>, checked |-> TRUE]
    ELSE IF ~net.ok
    THEN [result |-> Raise(PostpassClientError, "HTTP request failed", <<>>),
          posted |-> <<Posted(ep, sql)>>, checked |-> TRUE]
    ELSE IF ~net.body.utf8 \/ JsonType(net.body.text) = "invalid"
    THEN [result |-> Raise(PostpassClientError, "PostPass response was not valid JSON.", <<>>),
          posted |-> <<Posted(ep, sql)>>, checked |-> TRUE]
    ELSE [result |-> Return(<<net.body.text>>, <<>>),
          posted |-> <<Posted(ep, sql)>>, checked |-> TRUE]

\* PostpassClient.run_sql: its result, the POSTs it made (`posted`), and whether
\* it got past the endpoint and SQL checks (`checked`)
RunSqlOutcome(ep, sql, net) ==
    IF ~Truthy(ep)
    THEN [result |-> Raise(PostpassClientError, "PostPass endpoint is required.", <<>>),
          posted |-> <<>>, checked |-> FALSE]
    ELSE IF ~Truthy(sql) \/ ~Truthy(Strip(sql))
    THEN [result |-> Raise(PostpassClientError, "SQL query is required.", <<>>),
          posted |-> <<>>, checked |-> FALSE]
    ELSE IF ~RequestOk(ep)
    THEN [result |-> Raise("ValueError", "unknown url type", <<>>),
          posted |-> <<>>, checked |-> TRUE]
    ELSE IF ~net.ok
    THEN [result |-> Raise(PostpassClientError, "HTTP request failed", <<>>),
          posted |-> <<Posted(ep, sql)>>, checked |-> TRUE]
    ELSE IF ~net.body.utf8 \/ JsonType(net.body.text) = "invalid"
    THEN [result |-> Raise(PostpassClientError, "PostPass response was not valid JSON.", <<>>),
          posted |-> <<Posted(ep, sql)>>, checked |-> TRUE]
    ELSE IF JsonType(net.body.text) # "object"
    THEN [result |-> Raise(PostpassClientError,
                           "PostPass response must be a GeoJSON object.", <<>>),
          posted |-> <<Posted(ep, sql)>>, checked |-> TRUE]
    ELSE [result |-> Return(<<net.body.text>>, <<>>),
          posted |-> <<Posted(ep, sql)>>, checked |-> TRUE]

\* extract_buildings querying postpass_polygon
PolygonOnlyExtractBuildingsOutcome(ep, bbox, net) ==
    LET q == BuildSimpleQuery(<<"postpass_polygon">>, bbox, <<>>, <<"building">>,
                              << <<"yes">> >>, FALSE)
        o == RunSqlOutcome(ep, q.value, net)
    IN  [result |-> o.result, posted |-> o.posted, checked |-> o.checked,
         run_sql |-> <<q.value>>]

\* PostpassClient.extract_buildings: `run_sql` lists the SQL of each run_sql call
ExtractBuildingsOutcome(ep, bbox, net) ==
    LET q == BuildSimpleQuery(<<"postpass_pointpolygon">>, bbox, <<>>, <<"building">>,
                              << <<"yes">> >>, FALSE)
    IN  IF q.kind = "raise"
        THEN [result |-> q, posted |-> <<>>, checked |-> FALSE, run_sql |-> <<>>]
        ELSE LET o == RunSqlOutcome(ep, q.value, net)
             IN  [result |-> o.result, posted |-> o.posted, checked |-> o.checked,
                  run_sql |-> <<q.value>>]

Endpoints ==
    {<<>>, None, <<" ">>, <<"h">>, <<"/", ":">>, <<"h", ":">>,
     <<"https", ":", "//postpass.geofabrik.de/api/0.2/interpreter">>}

Sqls == {None, <<>>, <<" ">>, <<" ", "a">>, <<"SELECT 1">>}

ClientBBoxes == {<<-1, -1, 1, 1>>, <<1, -1, -1, 1>>, <<-1, 1, 1, -1>>, <<0, 0, 0, 0>>}

NoNet == [ok |-> FALSE, body |-> [utf8 |-> FALSE, text |-> ""]]

NoCall ==
    [op |-> "none", sql |-> <<>>, bbox |-> <<0, 0, 0, 0>>, net |-> NoNet,
     run_sql |-> <<>>, posted |-> <<>>, checked |-> FALSE, result |-> NoResult]

\* ----------------------------------------------------------------- dialog
\* text.split(",")
RECURSIVE SplitComma(_)
SplitComma(s) ==
    IF \A i \in 1..Len(s) : s[i] # "," THEN <<s>>
    ELSE LET i == CHOOSE k \in 1..Len(s) :
                      s[k] = "," /\ \A j \in 1..(k - 1) : s[j] # ","
         IN  <<SubSeq(s, 1, i - 1)>> \o SplitComma(SubSeq(s, i + 1, Len(s)))

\* [p.strip() for p in ...]
StripAll(parts) == [i \in 1..Len(parts) |-> Strip(parts[i])]

IsDigit(c) == c \in {"0", "1", "2", "3", "4", "5", "6", "7", "8", "9"}

DigitValue(c) == CHOOSE d \in 0..9 : DigitChar(d) = c

RECURSIVE DigitsValue(_)
DigitsValue(ds) ==
    IF Len(ds) = 1 THEN DigitValue(ds[1])
    ELSE 10 * DigitsValue(SubSeq(ds, 1, Len(ds) - 1)) + DigitValue(ds[Len(ds)])

\* float(p) on the texts over digits, "-", "nan", " " and letters: nan, or an
\* optional "-" and digits, with surrounding whitespace; anything else is a
\* ValueError
ParseFloat(p) ==
    LET s == Strip(p)
        body == IF s # <<>> /\ s[1] = "-" THEN Tail(s) ELSE s
    IN  IF s = <<"nan">> THEN [ok |-> TRUE, value |-> NaN]
        ELSE IF body # <<>> /\ \A i \in 1..Len(body) : IsDigit(body[i])
        THEN [ok |-> TRUE,
              value |-> IF s[1] = "-" THEN 0 - DigitsValue(body) ELSE DigitsValue(body)]
        ELSE [ok |-> FALSE, value |-> 0]

BboxError(m) == [ok |-> FALSE, bbox |-> <<0, 0, 0, 0>>, msg |-> m]

\* OSMConflatorDialog._parse_bbox: the bbox, or the error message it set
ParseBbox(text) ==
    LET t == Strip(text)
        parts == StripAll(SplitComma(t))
        fs == [i \in 1..Len(parts) |-> ParseFloat(parts[i])]
    IN  IF t = <<>>
        THEN BboxError("Please enter a bounding box in the form min_lon,min_lat,max_lon,max_lat.")
        ELSE IF Len(parts) # 4
        THEN BboxError("Bounding box must have exactly four comma-separated values.")
        ELSE IF \E i \in 1..4 : ~fs[i].ok
        THEN BboxError("Bounding box values must be numeric.")
        ELSE LET b == [i \in 1..4 |-> fs[i].value]
             IN  IF FloatGe(b[1], b[3]) \/ FloatGe(b[2], b[4])
                 THEN BboxError("Bounding box min values must be less than max values.")
                 ELSE [ok |-> TRUE, bbox |-> b, msg |-> ""]

\* _set_error, _set_success, statusLabel.clear()
SetError(m) == [color |-> "red", text |-> <<m>>]

SetSuccess(layer_name) ==
    [color |-> "green", text |-> <<"Loaded layer '">> \o layer_name \o <<"' from Postpass.">>]

Cleared(st) == [st EXCEPT !.text = <<>>]

InitialStatus == [color |-> "red", text |-> <<>>]

\* `text.strip() or None`
StripOrNone(text) == IF Strip(text) = <<>> THEN None ELSE Strip(text)

\* layer_name of _on_run_clicked
LayerName(text, table_name, tag_key, tag_value) ==
    IF Strip(text) # <<>> THEN Strip(text)
    ELSE IF Truthy(tag_key) /\ Truthy(tag_value)
    THEN table_name \o <<" ">> \o tag_key \o <<"=">> \o tag_value
    ELSE IF Truthy(tag_key) THEN table_name \o <<" ">> \o tag_key
    ELSE table_name

Clicked(ran, requests, st, names) ==
    [steps |-> ran, posted |-> requests, status |-> st, added |-> names]

NoClick ==
    [steps |-> <<>>, posted |-> <<>>, added |-> <<>>, net |-> NoNet,
     fileOk |-> FALSE, layerValid |-> FALSE]

\* the try block of _on_run_clicked: extract_buildings without a tag key,
\* build_simple_query and run_sql with one
TaggedExtract(ep, q, net) ==
    IF q.kind = "raise" THEN [result |-> q, posted |-> <<>>]
    ELSE RunSqlOutcome(ep, q.value, net)

Extract(ep, table, bbox, key, value, net) ==
    IF ~Truthy(key) THEN ExtractBuildingsOutcome(ep, bbox, net)
    ELSE TaggedExtract(ep, BuildSimpleQuery(table, bbox, <<>>, key,
                                            IF Truthy(value) THEN <<value>> ELSE <<>>,
                                            FALSE),
                       net)

\* layer_name as _on_run_clicked computes it from the tag key and value in use
UsedLayerName(f, key, value) ==
    IF Truthy(key) THEN LayerName(f.layerNameText, f.table, key, value)
    ELSE LayerName(f.layerNameText, <<"postpass_pointpolygon">>, <<"building">>, <<"yes">>)

\* _on_run_clicked from the bbox p and the endpoint ep on
AfterParse(p, ep, o, layer_name, st, fileOk, layerValid) ==
    IF ~p.ok
    THEN Clicked(<<"parse_bbox">>, <<>>, SetError(p.msg), <<>>)
    ELSE IF ~Truthy(ep)
    THEN Clicked(<<"parse_bbox", "endpoint">>, <<>>,
                 SetError("Please enter a Postpass endpoint URL."), <<>>)
    ELSE IF o.result.kind = "raise" /\ o.result.cls \in {"ValueError", PostpassClientError}
    THEN Clicked(<<"parse_bbox", "endpoint", "extract">>, o.posted,
                 SetError(o.result.msg), <<>>)
    ELSE IF o.result.kind = "raise"
    THEN Clicked(<<"parse_bbox", "endpoint", "extract">>, o.posted, Cleared(st), <<>>)
    ELSE IF ~fileOk
    THEN Clicked(<<"parse_bbox", "endpoint", "extract", "write_file">>, o.posted,
                 SetError("Failed to write temporary GeoJSON file: {exc}"), <<>>)
    ELSE IF ~layerValid
    THEN Clicked(<<"parse_bbox", "endpoint", "extract", "write_file", "load_layer">>,
                 o.posted,
                 SetError("Loaded layer from Postpass response is not valid."), <<>>)
    ELSE Clicked(<<"parse_bbox", "endpoint", "extract", "write_file", "load_layer",
                   "add_layer">>,
                 o.posted, SetSuccess(layer_name), <<layer_name>>)

WithInputs(f, p, key, value, ep, st, net, fileOk, layerValid) ==
    AfterParse(p, ep, Extract(ep, f.table, p.bbox, key, value, net),
               UsedLayerName(f, key, value), st, fileOk, layerValid)

\* OSMConflatorDialog._on_run_clicked on the widgets f and the status st, when
\* the transport answers net, the temporary file can be written (fileOk) and
\* the layer loads as valid (layerValid): the steps it ran, its POSTs, the
\* status it left and the layers it added
OnRunClicked(f, st, net, fileOk, layerValid) ==
    WithInputs(f, ParseBbox(f.bboxText), StripOrNone(f.tagKeyText),
               StripOrNone(f.tagValueText), Strip(f.endpointText),
               st, net, fileOk, layerValid)

\* what the user types into bboxEdit for the float n
NumText(n) ==
    IF n = NaN THEN <<"nan">>
    ELSE (IF n < 0 THEN <<"-">> ELSE <<>>) \o Digits(IF n < 0 THEN 0 - n ELSE n)

BboxText(b) == NumText(b[1]) \o <<",", " ">> \o NumText(b[2]) \o <<",">> \o NumText(b[3])
                   \o <<" ", ",">> \o NumText(b[4])

\* bboxEdit: four numbers (nan among them), and texts that do not parse
BboxTexts ==
    {BboxText(<<x, y, 0, 0>>) : x \in Coords \cup {NaN}, y \in Coords \cup {NaN}}
        \cup {<<>>, <<" ">>, <<"0", ",", "0", ",", "1">>,
              <<"0", ",", "0", ",", "1", ",", "1", ",", "1">>,
              <<"x", ",", "0", ",", "1", ",", "1">>,
              <<"-", "1", ",", ",", "1", ",", "1">>,
              <<"-", "1", ",", "-", "1", ",", "nan", ",", "1">>}

EndpointTexts == {<<>>, <<" ">>, <<"h">>, <<" ", "h", ":">>}

\* the widgets after __init__
NoDialog ==
    [bboxText |-> <<>>,
     endpointText |-> <<"https", ":", "//postpass.geofabrik.de/api/0.2/interpreter">>,
     tagKeyText |-> <<>>, tagValueText |-> <<>>, layerNameText |-> <<>>,
     table |-> <<"postpass_point">>]

\* the tag key, tag values, layer name and table widgets, filled in together
DialogForms ==
    {[tagKeyText |-> <<" ">>, tagValueText |-> <<>>, layerNameText |-> <<>>,
      table |-> <<"postpass_point">>],
     [tagKeyText |-> <<"a">>, tagValueText |-> <<"b", " ">>, layerNameText |-> <<>>,
      table |-> <<"postpass_point">>],
     [tagKeyText |-> <<"a">>, tagValueText |-> <<>>, layerNameText |-> <<"L">>,
      table |-> <<"postpass_pointlinepolygon">>],
     [tagKeyText |-> <<" ">>, tagValueText |-> <<"b", " ">>, layerNameText |-> <<"L">>,
      table |-> <<"postpass_pointlinepolygon">>]}

DialogInputs ==
    {[bboxText |-> b, endpointText |-> e, tagKeyText |-> f.tagKeyText,
      tagValueText |-> f.tagValueText, layerNameText |-> f.layerNameText,
      table |-> f.table] :
        b \in BboxTexts, e \in EndpointTexts, f \in DialogForms}

DialogNetOutcomes ==
    {n \in NetOutcomes :
        n.body.text \in {"", "[1,2,3]", "{\"type\": \"FeatureCollection\", \"features\": []}"}}

\* ---------------------------------------------------------------- actions
CallCreateTagFilter ==
    /\ bcall.op = "create_tag_filter"
    /\ bresult = NoResult
    /\ bresult' = Return(CreateTagFilter(bcall.key, bcall.values), <<>>)
    /\ UNCHANGED <<bcall, clientVars, dialogVars>>

CallCreateColumnFilter ==
    /\ bcall.op = "create_column_filter"
    /\ bresult = NoResult
    /\ bresult' = Return(CreateColumnFilter(bcall.columns, bcall.use_centroid), <<>>)
    /\ UNCHANGED <<bcall, clientVars, dialogVars>>

CallCreateBboxFilter ==
    /\ bcall.op = "create_bbox_filter"
    /\ bresult = NoResult
    /\ bresult' = Return(CreateBboxFilter(bcall.bbox, bcall.geom_col), <<>>)
    /\ UNCHANGED <<bcall, clientVars, dialogVars>>

CallBuildSimpleQuery ==
    /\ bcall.op = "build_simple_query"
    /\ bresult = NoResult
    /\ bresult' = BuildSimpleQuery(bcall.table, bcall.bbox, bcall.columns,
                                   bcall.tag_key, bcall.tag_values, bcall.use_centroid)
    /\ UNCHANGED <<bcall, clientVars, dialogVars>>

RunSql(sql, net) ==
    /\ calls < MaxCalls
    /\ LET o == RunSqlOutcome(endpoint, sql, net)
       IN  /\ last' = [op |-> "run_sql", sql |-> sql, bbox |-> <<0, 0, 0, 0>>,
                       net |-> net, run_sql |-> <<sql>>, posted |-> o.posted,
                       checked |-> o.checked, result |-> o.result]
           /\ accepted' = accepted + (IF o.checked THEN 1 ELSE 0)
           /\ posts' = posts + Len(o.posted)
    /\ calls' = calls + 1
    /\ UNCHANGED <<endpoint, builderVars, dialogVars>>

ExtractBuildings(bbox, net) ==
    /\ calls < MaxCalls
    /\ LET o == ExtractBuildingsOutcome(endpoint, bbox, net)
       IN  /\ last' = [op |-> "extract_buildings", sql |-> <<>>, bbox |-> bbox,
                       net |-> net, run_sql |-> o.run_sql, posted |-> o.posted,
                       checked |-> o.checked, result |-> o.result]
           /\ accepted' = accepted + (IF o.checked THEN 1 ELSE 0)
           /\ posts' = posts + Len(o.posted)
    /\ calls' = calls + 1
    /\ UNCHANGED <<endpoint, builderVars, dialogVars>>

Apply(c, net, fileOk, layerValid) ==
    /\ click' = [steps |-> c.steps, posted |-> c.posted, added |-> c.added,
                 net |-> net, fileOk |-> fileOk, layerValid |-> layerValid]
    /\ status' = c.status
    /\ layers' = layers \o c.added

RunClicked(net, fileOk, layerValid) ==
    /\ click = NoClick
    /\ Apply(OnRunClicked(dlg, status, net, fileOk, layerValid), net, fileOk, layerValid)
    /\ UNCHANGED <<dlg, builderVars, clientVars>>

ClickRun ==
    \E net \in DialogNetOutcomes, fileOk \in BOOLEAN, layerValid \in BOOLEAN :
        RunClicked(net, fileOk, layerValid)

CallRunSql == \E sql \in Sqls, net \in NetOutcomes : RunSql(sql, net)

CallExtractBuildings == \E bbox \in ClientBBoxes, net \in NetOutcomes : ExtractBuildings(bbox, net)

\* --------------------------------------------------------- specifications
\* the client: one PostpassClient, constructed with some endpoint, then called
Init ==
    /\ endpoint \in Endpoints
    /\ calls = 0
    /\ accepted = 0
    /\ posts = 0
    /\ last = NoCall
    /\ bcall = DefaultCall
    /\ bresult = NoResult
    /\ dlg = NoDialog
    /\ status = InitialStatus
    /\ layers = <<>>
    /\ click = NoClick

Next == CallRunSql \/ CallExtractBuildings

Spec == Init /\ [][Next]_vars

\* the builder: one call of one of its functions on arguments from the input sets
BuilderInit ==
    /\ bcall \in TagFilterCalls \cup ColumnFilterCalls \cup BboxFilterCalls \cup QueryCalls
    /\ bresult = NoResult
    /\ endpoint = <<>>
    /\ calls = 0
    /\ accepted = 0
    /\ posts = 0
    /\ last = NoCall
    /\ dlg = NoDialog
    /\ status = InitialStatus
    /\ layers = <<>>
    /\ click = NoClick

BuilderNext ==
    \/ CallCreateTagFilter
    \/ CallCreateColumnFilter
    \/ CallCreateBboxFilter
    \/ CallBuildSimpleQuery

BuilderSpec == BuilderInit /\ [][BuilderNext]_vars

\* the dialog: the user has filled the widgets, perhaps after an earlier click
\* that loaded a layer, and clicks runButton once
DialogInit ==
    /\ dlg \in DialogInputs
    /\ \/ status = InitialStatus /\ layers = <<>>
       \/ status = SetSuccess(<<"earlier">>) /\ layers = << <<"earlier">> >>
    /\ click = NoClick
    /\ bcall = DefaultCall
    /\ bresult = NoResult
    /\ endpoint = <<>>
    /\ calls = 0
    /\ accepted = 0
    /\ posts = 0
    /\ last = NoCall

DialogNext == ClickRun

DialogSpec == DialogInit /\ [][DialogNext]_vars

\* ------------------------------------------------------------ properties
\* The four kinds of failure the specification names.  The code has one client
\* exception class and the builder raises ValueError: a kind is the raise site,
\* which the class and the message identify.
IsConfigurationError(r) ==
    r.kind = "raise" /\ r.cls = PostpassClientError /\ r.msg = "PostPass endpoint is required."

IsInvalidRequest(r) ==
    /\ r.kind = "raise"
    /\ \/ r.cls = PostpassClientError /\ r.msg = "SQL query is required."
       \/ r.cls = "ValueError" /\ r.msg = "table is required for Postpass query."

IsTransportError(r) ==
    r.kind = "raise" /\ r.cls = PostpassClientError /\ r.msg = "HTTP request failed"

IsMalformedResponse(r) ==
    /\ r.kind = "raise"
    /\ r.cls = PostpassClientError
    /\ r.msg \in {"PostPass response was not valid JSON.",
                  "PostPass response must be a GeoJSON object."}

Count(atom, s) == Cardinality({i \in 1..Len(s) : s[i] = atom})

StartsWith(s, p) == Len(s) >= Len(p) /\ SubSeq(s, 1, Len(p)) = p

Contains(s, atom) == \E i \in 1..Len(s) : s[i] = atom

\* the entries of a values list that are neither null nor empty
NotNullNotEmpty(v) == v # None /\ v # <<>>

Remaining(values) == IF values = NoneSeq THEN <<>> ELSE SelectSeq(values, NotNullNotEmpty)

\* 'v1', 'v2', ..., each entry trimmed, written from the last entry backwards
RECURSIVE InListOf(_)
InListOf(vs) ==
    LET n == Len(vs)
    IN  IF n = 1 THEN <<"'">> \o Strip(vs[1]) \o <<"'">>
        ELSE InListOf(SubSeq(vs, 1, n - 1)) \o <<", ", "'">> \o Strip(vs[n]) \o <<"'">>

\* C1: create_tag_filter drops the empty and null entries and returns the
\* presence-only predicate when nothing or exactly the one entry "*" is left, the
\* equality predicate when exactly one other entry is left, and the membership
\* predicate over every remaining entry, in order, when two or more are left
\* (key and values are written trimmed).
C1_TagFilterPolicy ==
    (bcall.op = "create_tag_filter" /\ bresult # NoResult) =>
        LET left == Remaining(bcall.values)
            k == Strip(bcall.key)
        IN  /\ bresult.kind = "return"
            /\ (Len(left) = 0 \/ (Len(left) = 1 /\ left[1] = <<"*">>)) =>
                   bresult.value = <<"tags ? '">> \o k \o <<"'">>
            /\ (Len(left) = 1 /\ left[1] # <<"*">>) =>
                   bresult.value =
                       <<"tags->>'">> \o k \o <<"' = '">> \o Strip(left[1]) \o <<"'">>
            /\ Len(left) >= 2 =>
                   bresult.value =
                       <<"tags->>'">> \o k \o <<"' IN (">> \o InListOf(left) \o <<")">>

\* C1 witness: the values ["*", ""] gave the presence-only predicate
C1_Witness ==
    /\ bcall.op = "create_tag_filter"
    /\ bcall.key = <<"a">>
    /\ bcall.values = << <<"*">>, <<>> >>
    /\ bresult.kind = "return"
    /\ bresult.value = <<"tags ? '", "a", "'">>

\* a tag filter was supplied: the request names a tag key
TagSupplied(call) == call.tag_key # None /\ call.tag_key # <<>>

\* C2: for a non-empty table build_simple_query returns exactly
\* SELECT <column_list> FROM <table> WHERE <bbox_filter>, followed by
\* AND <tag_filter> if and only if a tag filter was supplied: it starts with
\* SELECT, has one WHERE whose first predicate is the bbox predicate, and does not
\* end with a statement terminator.
C2_QueryShape ==
    (/\ bcall.op = "build_simple_query"
     /\ bresult # NoResult
     /\ bcall.table # None
     /\ bcall.table # <<>>) =>
        LET sql == bresult.value
            bb == CreateBboxFilter(bcall.bbox, <<"geom">>)
            head == <<"SELECT ">>
                        \o CreateColumnFilter(OrEmpty(bcall.columns), bcall.use_centroid)
                        \o <<" FROM ">> \o bcall.table \o <<" WHERE ">> \o bb
            w == CHOOSE i \in 1..Len(sql) : sql[i] = " WHERE "
        IN  /\ bresult.kind = "return"
            /\ sql = head \o (IF TagSupplied(bcall)
                              THEN <<" AND ">>
                                       \o CreateTagFilter(bcall.tag_key,
                                                          OrEmpty(bcall.tag_values))
                              ELSE <<>>)
            /\ sql[1] = "SELECT "
            /\ Count(" WHERE ", sql) = 1
            /\ StartsWith(SubSeq(sql, w + 1, Len(sql)), bb)
            /\ (Len(sql) = Len(head)) <=> ~TagSupplied(bcall)
            /\ sql[Len(sql)] # ";"

\* C2 witness: a query with a tag filter was built for a table ending in ";"
C2_Witness ==
    /\ bcall.op = "build_simple_query"
    /\ bcall.table = <<"t", ";">>
    /\ bcall.tag_key = <<"a">>
    /\ bcall.tag_values = NoneSeq
    /\ bresult.kind = "return"
    /\ Contains(bresult.value, " AND ")
    /\ Contains(bresult.value, "tags ? '")

\* C7: build_simple_query with an empty or missing table fails with the
\* invalid-request error and does nothing else: it calls no helper and returns no
\* SQL, whatever the other fields are.
C7_EmptyTableRejected ==
    (/\ bcall.op = "build_simple_query"
     /\ bresult # NoResult
     /\ bcall.table \in {None, <<>>}) =>
        /\ IsInvalidRequest(bresult)
        /\ bresult.built = <<>>
        /\ bresult.value = <<>>

\* C7 witness: a request with a tag filter and columns but no table was rejected
C7_Witness ==
    /\ bcall.op = "build_simple_query"
    /\ bcall.table = <<>>
    /\ bcall.tag_key = <<"a">>
    /\ bcall.columns # NoneSeq
    /\ bresult.kind = "raise"

KeptVerbatim(c) == c # <<>> /\ c # <<"*">>

KeptTrimmed(c) == Strip(c) # <<>> /\ Strip(c) # <<"*">>

ColumnListOf(keys, use_centroid) ==
    Join(<<", ">>,
         << <<"osm_id">>, <<"tags">> >>
             \o [i \in 1..Len(keys) |-> Projection(keys[i])]
             \o << IF use_centroid THEN <<"ST_Centroid(geom) as geom">> ELSE <<"geom">> >>)

\* C10 as stated: the middle items are one projection per entry of columns that
\* is neither empty nor "*", in the input order, aliased to the entry.
C10_ProjectionPerEntry ==
    (bcall.op = "create_column_filter" /\ bresult # NoResult) =>
        bresult.value =
            ColumnListOf(SelectSeq(bcall.columns, KeptVerbatim), bcall.use_centroid)

\* C10 amended: create_column_filter returns the identifier column, the raw-tags
\* column, then one projection per entry of columns that after trimming is
\* neither empty nor "*", in the input order and aliased to the trimmed entry,
\* then the geometry expression (the centroid aliased geom when use_centroid,
\* else geom).
C10_ProjectionPerTrimmedEntry ==
    (bcall.op = "create_column_filter" /\ bresult # NoResult) =>
        LET kept == SelectSeq(bcall.columns, KeptTrimmed)
        IN  /\ bresult.kind = "return"
            /\ bresult.value =
                   ColumnListOf([i \in 1..Len(kept) |-> Strip(kept[i])], bcall.use_centroid)
            /\ StartsWith(bresult.value, <<"osm_id", ", ", "tags", ", ">>)
            /\ bresult.value[Len(bresult.value)] =
                   (IF bcall.use_centroid THEN "ST_Centroid(geom) as geom" ELSE "geom")

\* C10 witness: a whitespace-only entry got no projection and " a" was projected
\* as a
C10_Witness ==
    /\ bcall.op = "create_column_filter"
    /\ bcall.columns = << <<" ">>, <<" ", "a">> >>
    /\ ~bcall.use_centroid
    /\ bresult.value =
           <<"osm_id", ", ", "tags", ", ", "tags->>'", "a", "' as \"", "a", "\"", ", ", "geom">>

EmptyEndpoint(ep) == ep = <<>> \/ ep = None

BlankSql(sql) == sql = None \/ Strip(sql) = <<>>

\* C3 as stated: run_sql fails with the configuration error when the endpoint is
\* empty and with the invalid-request error when sql is empty or blank, and in
\* both cases makes no POST.
C3_ChecksBeforeTransport ==
    last.op = "run_sql" =>
        /\ EmptyEndpoint(endpoint) =>
               IsConfigurationError(last.result) /\ last.posted = <<>>
        /\ BlankSql(last.sql) =>
               IsInvalidRequest(last.result) /\ last.posted = <<>>

\* C3 amended: run_sql fails with the configuration error when the endpoint is
\* empty, whatever sql is, and with the invalid-request error when the endpoint
\* is not empty and sql is empty or blank; in both cases it makes no POST.
C3_EndpointCheckedFirst ==
    last.op = "run_sql" =>
        /\ EmptyEndpoint(endpoint) =>
               IsConfigurationError(last.result) /\ last.posted = <<>>
        /\ (~EmptyEndpoint(endpoint) /\ BlankSql(last.sql)) =>
               IsInvalidRequest(last.result) /\ last.posted = <<>>

\* C3 witness: run_sql("") on a client without endpoint failed with the
\* configuration error, and no POST has been made
C3_Witness ==
    /\ last.op = "run_sql"
    /\ endpoint = <<>>
    /\ last.sql = <<>>
    /\ IsConfigurationError(last.result)
    /\ posts = 0

\* C4: every failure of run_sql or extract_buildings is one of the four kinds;
\* a failure while preparing or performing the POST is a transport error.
C4_EveryFailureTyped ==
    last.result.kind = "raise" =>
        \/ IsConfigurationError(last.result)
        \/ IsInvalidRequest(last.result)
        \/ IsTransportError(last.result)
        \/ IsMalformedResponse(last.result)

\* C5: a client call returns a value only when the transport returned a body
\* that decodes as UTF-8 and parses as a JSON object, and the value is that
\* object; a body that is not JSON, or is JSON but no object, makes it fail with
\* the malformed-response error.
C5_ReturnsOnlyObjects ==
    last.op # "none" =>
        /\ last.result.kind = "return" =>
               /\ Len(last.posted) = 1
               /\ last.net.ok
               /\ last.net.body.utf8
               /\ JsonType(last.net.body.text) = "object"
               /\ last.result.value = <<last.net.body.text>>
        /\ (/\ last.posted # <<>>
            /\ last.net.ok
            /\ (~last.net.body.utf8 \/ JsonType(last.net.body.text) # "object")) =>
               IsMalformedResponse(last.result)

\* C5 witness: the transport returned the JSON array [1,2,3] and run_sql failed
\* with the malformed-response error
C5_Witness ==
    /\ last.op = "run_sql"
    /\ last.posted # <<>>
    /\ last.net.ok
    /\ last.net.body.text = "[1,2,3]"
    /\ last.result.msg = "PostPass response must be a GeoJSON object."

Ordered(bbox) == bbox[1] < bbox[3] /\ bbox[2] < bbox[4]

\* C6: on a client whose endpoint is usable, extract_buildings rejects a bounding
\* box that violates min_lon < max_lon or min_lat < max_lat with the
\* invalid-request error, and makes no POST for it.
C6_UnorderedBboxRejected ==
    (/\ last.op = "extract_buildings"
     /\ RequestOk(endpoint)
     /\ ~Ordered(last.bbox)) =>
        /\ IsInvalidRequest(last.result)
        /\ last.posted = <<>>

\* C8: extract_buildings issues exactly one run_sql call; its SQL is what
\* build_simple_query returns for postpass_pointpolygon, the given bbox, no
\* extra columns and the tag filter building = 'yes'; its result or error, and
\* its POSTs, are that run_sql call's.
C8_ExtractBuildingsIsRunSql ==
    last.op = "extract_buildings" =>
        /\ Len(last.run_sql) = 1
        /\ LET sql == last.run_sql[1]
               o == RunSqlOutcome(endpoint, sql, last.net)
           IN  /\ sql = BuildSimpleQuery(<<"postpass_pointpolygon">>, last.bbox, <<>>,
                                         <<"building">>, << <<"yes">> >>, FALSE).value
               /\ StartsWith(sql, <<"SELECT ", "osm_id", ", ", "tags", ", ", "geom",
                                    " FROM ", "postpass_pointpolygon", " WHERE ">>)
               /\ SubSeq(sql, Len(sql) - 5, Len(sql)) =
                      <<" AND ", "tags->>'", "building", "' = '", "yes", "'">>
               /\ last.result = o.result
               /\ last.posted = o.posted

\* C8 witness: extract_buildings returned the object its one POST answered with
C8_Witness ==
    /\ last.op = "extract_buildings"
    /\ last.bbox = <<-1, -1, 1, 1>>
    /\ Len(last.posted) = 1
    /\ Contains(last.posted[1].value, "postpass_pointpolygon")
    /\ last.result.kind = "return"

\* C9: each call that passes the endpoint and SQL checks makes exactly one POST
\* and each call that fails them makes none, so n accepted calls have made
\* exactly n POSTs.
C9_OnePostPerAcceptedCall ==
    /\ posts = accepted
    /\ last.op # "none" => Len(last.posted) = (IF last.checked THEN 1 ELSE 0)

\* the steps of one click on the run button, in the order the claim gives
RunOrder == <<"parse_bbox", "endpoint", "extract", "write_file", "load_layer", "add_layer">>

\* the text is four comma-separated numbers with min < max on both axes
FourNumbersOrdered(text) ==
    LET parts == SplitComma(Strip(text))
        fs == [i \in 1..Len(parts) |-> ParseFloat(parts[i])]
    IN  /\ Len(parts) = 4
        /\ \A i \in 1..4 : fs[i].ok /\ fs[i].value # NaN
        /\ fs[1].value < fs[3].value
        /\ fs[2].value < fs[4].value

\* the extraction call of this click returned without error
ExtractionReturned(f, net) ==
    Extract(Strip(f.endpointText), f.table, ParseBbox(f.bboxText).bbox,
            StripOrNone(f.tagKeyText), StripOrNone(f.tagValueText), net).result.kind
        = "return"

\* the first step of RunOrder that fails (the last one when none does)
FirstFailure(f, c) ==
    IF ~FourNumbersOrdered(f.bboxText) THEN 1
    ELSE IF Strip(f.endpointText) = <<>> THEN 2
    ELSE IF ~ExtractionReturned(f, c.net) THEN 3
    ELSE IF ~c.fileOk THEN 4
    ELSE IF ~c.layerValid THEN 5
    ELSE 6

ShowsError(st) == st.color = "red" /\ st.text # <<>>

ShowsSuccess(st) == st.color = "green" /\ st.text # <<>>

C11_Click ==
    click' # click =>
        LET k == FirstFailure(dlg, click')
        IN  /\ layers' = layers \o click'.added
            /\ Len(click'.added) <= 1
            /\ click'.steps = SubSeq(RunOrder, 1, k)
            /\ click'.added # <<>> <=> k = 6
            /\ k <= 2 => click'.posted = <<>>
            /\ k < 6 => ShowsError(status')
            /\ ShowsSuccess(status') <=> click'.added # <<>>

\* C11: one click on the run button adds at most one layer, and only after the
\* bbox text parsed as four numbers with min < max, the endpoint was non-blank,
\* the extraction call returned without error, the temporary file was written
\* and the loaded layer was valid, in this order; when a step fails no later
\* step runs (no HTTP request when the bbox or endpoint check fails), no layer
\* is added and the status shows an error; the success status is shown
\* exactly when a layer was added.
C11_LayerOnlyAfterAllSteps == [][C11_Click]_vars

====
